---- MODULE Spec2Model ----
(***************************************************************************)
(* State-machine model of the Buffer posting automation (src/version2.py;  *)
(* src/Vesion1.py is the earlier file-based variant with the same session  *)
(* logic).  The model follows a request through process_media_file: the   *)
(* session is established, nine workflow steps run in order, the last of   *)
(* which is submit_post, and handle_media reports the outcome.             *)
(*                                                                         *)
(* The browser and the remote site are the environment: every wait either  *)
(* resolves or times out, every driver call either completes or raises,    *)
(* chosen nondeterministically.                                            *)
(***************************************************************************)
EXTENDS Integers, Sequences, FiniteSets, TLC

VARIABLES
    pc,              \* control position of the request being processed
    driver,          \* global driver handle: "None" or "live"
    credsSet,        \* EMAIL and PASSWORD are both configured
    cookieFile,      \* COOKIE_FILE: NoFile, or the pickled list of cookie domains
    loadList,        \* load_cookies: the list read from the file
    loadIdx,         \* load_cookies: index of the next cookie of the loop
    skipped,         \* load_cookies: the skipped counter
    injected,        \* load_cookies: cookies handed to add_cookie successfully
    frame,           \* browser frame context: "default" or "iframe"
    es,              \* establish_session: results observed in the current call
    esCall,          \* which establish_session call of this request (0, 1, 2)
    relaunch,        \* what process_media_file did between the two calls
    esResult,        \* value of the last establish_session call
    step,            \* the step function being executed (0: none)
    started,         \* step functions called in this request, in call order
    returned,        \* their return values, in order
    cand,            \* candidate loop: index of the candidate tried next
    tried,           \* candidate loop: candidates tried so far, with outcome
    found,           \* candidate loop: index of the candidate the element is from
    actedOn,         \* candidate index of the element the step acted on
    attempt,         \* submit_post: the attempt loop variable
    attemptsStarted, \* submit_post: attempts started in this call
    subTrace,        \* submit_post: events of the current attempt, in order
    clicks,          \* submit_post: click methods invoked in this attempt
    dismissCount,    \* submit_post: dismiss_overlays calls in this call
    clicksOk,        \* submit_post: click methods that completed in this call
    shareButton,     \* submit_post: share_button: "None", "hidden", "clickable"
    confirmed,       \* the post-condition of the last action: "yes", "no", "none"
    tempFiles,       \* temporary media files of upload_video present on disk
    shots,           \* screenshot_bytes_list, as the steps the snapshots follow
    shotFailures,    \* take_screenshot calls that returned None in this request
    result,          \* value of process_media_file
    notice,          \* last notice handle_media sent
    cookies,         \* normalization runs: the cookie list, before and after each pass
    passes,          \* normalization runs: passes applied so far
    pngs,            \* combine runs: the argument of combine_screenshots
    combined,        \* combine runs: what combine_screenshots returned
    wpc,             \* handler threads: what each thread of the bot is doing
    inbox,           \* handler threads: media messages received and not yet taken
    browsers,        \* handler threads: browsers launched and not quit
    shutdown,        \* what the signal handler did: "none" before a signal
    dismiss          \* dismissal runs: the position and history of one pass

vars == <<pc, driver, credsSet, cookieFile, loadList, loadIdx,
          skipped, injected, frame, es, esCall, relaunch, esResult, step,
          started,
          returned, cand, tried, found, actedOn, attempt, attemptsStarted,
          subTrace, clicks, dismissCount, clicksOk, shareButton, confirmed,
          tempFiles, shots,
          shotFailures, result, notice, cookies, passes, pngs, combined, wpc, inbox,
          browsers, shutdown, dismiss>>

cookieVars == <<cookieFile, loadList, loadIdx, skipped, injected>>
sessVars   == <<es, esCall, relaunch, esResult>>
stepVars   == <<step, started, returned, confirmed>>
loopVars   == <<cand, tried, found, actedOn>>
subVars    == <<attempt, attemptsStarted, subTrace, clicks, dismissCount,
                clicksOk, shareButton>>
outVars    == <<shots, shotFailures, result, notice>>
normVars   == <<cookies, passes>>
gridVars   == <<pngs, combined>>
poolVars   == <<wpc, inbox, browsers>>

(***************************************************************************)
(* Bounds of the model.                                                    *)
(***************************************************************************)
MaxTempFiles    == 1   \* temporary media files left on disk
MaxCookies      == 2   \* cookies in the persisted store
MaxShotFailures == 1   \* take_screenshot failures per request
MaxDomainLen    == 5   \* tokens of a domain string in the normalization runs
MaxPasses       == 2   \* normalization passes applied to one cookie list
MaxShots        == 4   \* snapshots handed to combine_screenshots
MaxSide         == 2   \* width and height of a snapshot, in pixels
MaxInbox        == 2   \* media messages waiting for a handler thread
MaxBrowsers     == 3   \* browsers running at the same time

(***************************************************************************)
(* Domain strings.  A string is the sequence of its tokens: "." and the    *)
(* labels between the dots.  No token is a prefix of another, so two       *)
(* strings are equal exactly when their token sequences are equal, and a   *)
(* string starts with "." exactly when its first token is ".".             *)
(***************************************************************************)
Tokens == {".", "publish", "www", "buffer", "com"}

PublishDomain == <<"publish", ".", "buffer", ".", "com">>   \* 'publish.buffer.com'
WwwDomain     == <<"www", ".", "buffer", ".", "com">>       \* 'www.buffer.com'
DotDomain     == <<".", "buffer", ".", "com">>              \* '.buffer.com'
BareDomain    == <<"buffer", ".", "com">>                   \* 'buffer.com'

NamedDomains == {PublishDomain, WwwDomain, DotDomain, BareDomain}

SeqsUpTo(S, n) == UNION {[1..k -> S] : k \in 0..n}

\* cookie_domain.startswith('.')
startswith_dot(d) == Len(d) > 0 /\ d[1] = "."

\* The domain rewriting of load_cookies (the if/elif/elif chain).
normalize(d) ==
    IF d = PublishDomain THEN DotDomain
    ELSE IF startswith_dot(d) THEN Tail(d)
    ELSE IF d = WwwDomain THEN DotDomain
    ELSE d

\* COOKIE_FILE: absent, or holding a pickled cookie list.
NoFile == [exists |-> FALSE, readable |-> FALSE, list |-> <<>>]
StoredFile(l) == [exists |-> TRUE, readable |-> TRUE, list |-> l]

\* COOKIE_FILE opened for writing and left without a complete pickle.
TruncatedFile == [exists |-> TRUE, readable |-> FALSE, list |-> <<>>]

\* The cookie lists a persisted store can hold.
StoredDomains == {PublishDomain, DotDomain}
StoredLists == SeqsUpTo(StoredDomains, MaxCookies)

\* The cookie set the site leaves in the browser after an authenticated login.
LoginJar == <<DotDomain, PublishDomain>>

Range(s) == {s[i] : i \in 1..Len(s)}

EsInit == [probe1 |-> "none", load |-> "none", probe2 |-> "none",
           loginCalls |-> 0, captcha |-> "none", login |-> "none",
           nav |-> "none", saved |-> "none", seen |-> "none",
           entered |-> "none"]

(***************************************************************************)
(* Snapshots and the combined image.  A snapshot is the bytes of one       *)
(* screenshot: bytes that PIL can open as an image of w x h pixels, or     *)
(* bytes it cannot open.  The combined image is described by its size and  *)
(* by the paste operations that filled it.                                 *)
(***************************************************************************)
Png(w, h) == [valid |-> TRUE, w |-> w, h |-> h]
BadPng == [valid |-> FALSE, w |-> 0, h |-> 0]

Snapshots == {BadPng} \cup {Png(w, h) : w \in 1..MaxSide, h \in 1..MaxSide}

\* No call of combine_screenshots yet.
NotCombined == [returned |-> FALSE, image |-> FALSE, width |-> 0,
                height |-> 0, pastes |-> <<>>]

\* combine_screenshots returned None.
NoImage == [returned |-> TRUE, image |-> FALSE, width |-> 0, height |-> 0,
            pastes |-> <<>>]

(***************************************************************************)
(* One pass of dismiss_overlays: at is the position in the function,       *)
(* overlay and button the indices of the two loops, acts the dismissal     *)
(* actions performed so far with their outcome, result the value returned. *)
(***************************************************************************)
NoPass == [at |-> "none", overlay |-> 0, button |-> 0, acts |-> <<>>,
           result |-> "none"]

(***************************************************************************)
(* The handler threads.  bot is a telebot.TeleBot built with its default   *)
(* arguments and main runs bot.polling(): telebot hands every message to   *)
(* a pool of two worker threads, each of which runs handle_media from its  *)
(* first line to its last.  Nothing in the source holds a lock.            *)
(***************************************************************************)
NumWorkers == 2
Workers == 1..NumWorkers

(***************************************************************************)
(* Initial state: the bot is started, no browser is launched, no request   *)
(* is being processed.  The configuration and the cookie store left by an  *)
(* earlier run are inputs.                                                 *)
(***************************************************************************)
Quiescent ==
    /\ pc = "idle" /\ driver = "None"
    /\ loadList = <<>> /\ loadIdx = 0 /\ skipped = 0
    /\ injected = <<>> /\ frame = "default"
    /\ es = EsInit /\ esCall = 0 /\ esResult = "none" /\ relaunch = <<>>
    /\ step = 0 /\ started = <<>> /\ returned = <<>>
    /\ cand = 0 /\ tried = <<>> /\ found = 0 /\ actedOn = 0
    /\ attempt = 0 /\ attemptsStarted = 0 /\ subTrace = <<>> /\ clicks = <<>>
    /\ dismissCount = 0 /\ clicksOk = 0 /\ shareButton = "None"
    /\ confirmed = "none" /\ tempFiles = 0
    /\ shots = <<>> /\ shotFailures = 0 /\ result = "none" /\ notice = "none"
    /\ wpc = [w \in Workers |-> "idle"] /\ inbox = 0 /\ browsers = 0
    /\ shutdown = "none"
    /\ dismiss = NoPass

Init ==
    /\ Quiescent
    /\ credsSet \in BOOLEAN
    /\ cookieFile \in {NoFile} \cup {StoredFile(l) : l \in StoredLists}
    /\ cookies = <<>> /\ passes = 0
    /\ pngs = <<>> /\ combined = NotCombined

(***************************************************************************)
(* process_media_file: entry.                                              *)
(***************************************************************************)
\* The except branch of process_media_file: the error is printed, a
\* diagnostic snapshot is taken and dropped, and None is returned.
ProcessRaises ==
    /\ result' = "None"
    /\ pc' = "done"

process_media_file_start ==
    /\ pc = "idle"
    /\ shots' = <<>> /\ shotFailures' = 0 /\ notice' = "none"
    /\ es' = EsInit /\ esResult' = "none" /\ relaunch' = <<>>
    /\ step' = 0 /\ started' = <<>> /\ returned' = <<>> /\ confirmed' = "none"
    /\ cand' = 0 /\ tried' = <<>> /\ found' = 0 /\ actedOn' = 0
    /\ attempt' = 0 /\ attemptsStarted' = 0 /\ subTrace' = <<>>
    /\ clicks' = <<>> /\ dismissCount' = 0 /\ clicksOk' = 0
    /\ shareButton' = "None"
    /\ loadList' = <<>> /\ loadIdx' = 0 /\ skipped' = 0 /\ injected' = <<>>
    /\ UNCHANGED <<credsSet, cookieFile, frame, tempFiles, normVars, gridVars, poolVars, shutdown, dismiss>>
    /\ \/ /\ driver = "live"          \* the handle left by the last request
          /\ esCall' = 1 /\ pc' = "csv_nav" /\ result' = "none"
          /\ UNCHANGED driver
       \/ /\ driver = "None"          \* setup_chrome launches a browser
          /\ driver' = "live"
          /\ esCall' = 1 /\ pc' = "csv_nav" /\ result' = "none"
       \/ /\ driver = "None"          \* setup_chrome raises
          /\ esCall' = 0 /\ ProcessRaises
          /\ UNCHANGED driver

(***************************************************************************)
(* establish_session and the functions it calls.                           *)
(***************************************************************************)
FirstProbe == es.probe1 = "none"

\* establish_session after a check_session_validity result: a valid
\* session returns True; an invalid first probe goes on to load_cookies, an
\* invalid probe after the restore goes on to the credentials.
ProbeNextSkipsRestore(first, ok) ==
    IF ok THEN "return_true" ELSE "es_creds"

ProbeNext(first, ok) ==
    IF ok THEN "return_true"
    ELSE IF first THEN "load_open" ELSE "es_creds"

\* establish_session after login_with_credentials: its result is returned.
EstablishAfterLoginAlwaysTrue(loginOk) == "True"

EstablishAfterLogin(loginOk) == IF loginOk THEN "True" ELSE "False"

\* check_session_validity returns `ok` to establish_session.
ProbeReturns(ok, nav) ==
    /\ es' = IF FirstProbe
             THEN [es EXCEPT !.probe1 = IF ok THEN "True" ELSE "False",
                             !.nav = nav]
             ELSE [es EXCEPT !.probe2 = IF ok THEN "True" ELSE "False",
                             !.nav = nav]
    /\ LET nxt == ProbeNext(FirstProbe, ok) IN
         IF nxt = "return_true"
         THEN pc' = "session_result" /\ esResult' = "True"
         ELSE pc' = nxt /\ UNCHANGED esResult

\* Variant: the URL is not checked.
UrlNotChecked(outcome) == outcome # "raise"

\* `"publish.buffer.com" in driver.current_url` after driver.get returned:
\* outcome is "raise" when driver.get raised, "offsite" when the browser
\* is on another URL (the login page), "dashboard" otherwise.
UrlOnDashboard(outcome) == outcome = "dashboard"

check_session_validity_navigate ==
    /\ pc = "csv_nav"
    /\ UNCHANGED <<driver, credsSet, cookieVars, frame, esCall, relaunch,
                   stepVars, actedOn, subVars, tempFiles, outVars, normVars, gridVars, poolVars, shutdown, dismiss>>
    /\ tried' = <<>> /\ found' = 0
    /\ \E outcome \in {"raise", "offsite", "dashboard"} :
         IF UrlOnDashboard(outcome)
         THEN /\ pc' = "csv_ind" /\ cand' = 1
              /\ es' = [es EXCEPT !.nav = outcome]
              /\ UNCHANGED esResult
         ELSE /\ ProbeReturns(FALSE, outcome)
              /\ UNCHANGED cand

\* Number of entries of the candidate list of a step function (0: the step
\* has no candidate list); the indicator list of check_session_validity
\* has NumIndicators entries.
NumIndicators == 3

NumSelectors(s) ==
    CASE s = 1 -> 5      \* click_new_post
      [] s = 2 -> 0      \* upload_video
      [] s = 3 -> 3      \* type_content
      [] s = 4 -> 4      \* click_customize_button
      [] s = 5 -> 3      \* click_second_text_area
      [] s = 6 -> 3      \* fill_reels_input
      [] s = 7 -> 3      \* click_section_button
      [] s = 8 -> 3      \* click_list_item
      [] s = 9 -> 7      \* submit_post

\* The candidate loops `for selector in selectors: try: x = wait(...); break
\* except: continue`: the loop is left at the first candidate that resolves.
LoopNeverBreaks(ok) == FALSE

LoopBreaks(ok) == ok

\* The candidate tried after candidate c.
NextCandidate(c) == c + 1

check_session_validity_indicator ==
    /\ pc = "csv_ind"
    /\ UNCHANGED <<driver, credsSet, cookieVars, frame, esCall, relaunch,
                   stepVars, actedOn, subVars, tempFiles, outVars, normVars, gridVars, poolVars, shutdown, dismiss>>
    /\ \E ok \in BOOLEAN :
         /\ tried' = Append(tried, [c |-> cand, ok |-> ok])
         /\ found' = IF ok THEN cand ELSE found
         /\ IF LoopBreaks(ok)
            THEN /\ ProbeReturns(TRUE, es.nav)       \* return True
                 /\ UNCHANGED cand
            ELSE IF NextCandidate(cand) <= NumIndicators
            THEN /\ cand' = NextCandidate(cand)      \* continue
                 /\ UNCHANGED <<pc, es, esResult>>
            ELSE /\ ProbeReturns(FALSE, es.nav)      \* list exhausted
                 /\ UNCHANGED cand

\* load_cookies returns `ok` to establish_session.
LoadReturns(ok) ==
    /\ es' = [es EXCEPT !.load = IF ok THEN "True" ELSE "False"]
    /\ pc' = IF ok THEN "csv_nav" ELSE "es_creds"

load_cookies_open ==
    /\ pc = "load_open"
    /\ UNCHANGED <<driver, credsSet, cookieFile, frame, esCall, relaunch,
                   esResult, stepVars, loopVars, subVars, tempFiles, outVars,
                   normVars, gridVars, poolVars, shutdown, dismiss>>
    /\ \/ /\ ~cookieFile.exists                     \* no cookie file
          /\ LoadReturns(FALSE)
          /\ UNCHANGED <<loadList, loadIdx, skipped, injected>>
       \/ /\ cookieFile.exists                      \* get or unpickling raises
          /\ LoadReturns(FALSE)
          /\ UNCHANGED <<loadList, loadIdx, skipped, injected>>
       \/ /\ cookieFile.exists /\ cookieFile.readable
          /\ loadList' = cookieFile.list
          /\ loadIdx' = 1 /\ skipped' = 0 /\ injected' = <<>>
          /\ pc' = "load_loop"
          /\ UNCHANGED es

load_cookies_add ==
    /\ pc = "load_loop"
    /\ loadIdx <= Len(loadList)
    /\ UNCHANGED <<pc, driver, credsSet, cookieFile, loadList, frame,
                   sessVars, stepVars, loopVars, subVars, tempFiles, outVars,
                   normVars, gridVars, poolVars, shutdown, dismiss>>
    /\ loadIdx' = loadIdx + 1
    /\ LET d == normalize(loadList[loadIdx]) IN
         \/ /\ injected' = Append(injected, d)     \* add_cookie accepts it
            /\ UNCHANGED skipped
         \/ /\ skipped' = skipped + 1               \* add_cookie raises
            /\ UNCHANGED injected

\* Variant: a skipped cookie fails the restore.
LoadFailsOnSkip(nskipped) == nskipped = 0

\* The value of load_cookies after its loop: True, whatever was skipped.
LoadLoopResult(nskipped) == TRUE

load_cookies_return ==
    /\ pc = "load_loop"
    /\ loadIdx > Len(loadList)
    /\ LoadReturns(LoadLoopResult(skipped))
    /\ UNCHANGED <<driver, credsSet, cookieVars, frame, esCall, relaunch,
                   esResult, stepVars, loopVars, subVars, tempFiles, outVars,
                   normVars, gridVars, poolVars, shutdown, dismiss>>

\* establish_session: the credentials check before the login.
\* Variant: the configuration is not checked.
CredentialsNeverMissing(configured) == FALSE

\* `not EMAIL or not PASSWORD`; configured is credsSet.
CredentialsMissing(configured) == ~configured

establish_session_credentials ==
    /\ pc = "es_creds"
    /\ UNCHANGED <<driver, credsSet, cookieVars, frame, esCall, relaunch,
                   stepVars, loopVars, subVars, tempFiles, shots, shotFailures,
                   notice, normVars, gridVars, poolVars, shutdown, dismiss>>
    /\ IF CredentialsMissing(credsSet)
       THEN /\ esResult' = "raise"                  \* raise ValueError
            /\ ProcessRaises
            /\ UNCHANGED es
       ELSE /\ es' = [es EXCEPT !.loginCalls = @ + 1]
            /\ pc' = "login_open"
            /\ UNCHANGED <<esResult, result>>

\* login_with_credentials returns `ok`; establish_session returns on it.
\* saved is the outcome of its save_cookies call ("none": not called).
LoginReturnsFrom(e, ok, saved) ==
    /\ es' = [e EXCEPT !.login = IF ok THEN "True" ELSE "False",
                       !.saved = saved]
    /\ esResult' = EstablishAfterLogin(ok)
    /\ pc' = "session_result"

LoginReturns(ok, saved) == LoginReturnsFrom(es, ok, saved)

login_with_credentials_open ==
    /\ pc = "login_open"
    /\ UNCHANGED <<driver, credsSet, cookieVars, frame, esCall, relaunch,
                   stepVars, loopVars, subVars, tempFiles, outVars, normVars, gridVars, poolVars, shutdown, dismiss>>
    /\ \/ LoginReturns(FALSE, "none")               \* driver.get raises
       \/ pc' = "captcha" /\ UNCHANGED <<es, esResult>>

\* Outcomes of handle_captcha: "absent" (no reCAPTCHA iframe within the
\* wait), "checkbox_failed", "no_image", "resolved", "expired" (the image
\* challenge was still visible after the wait for the user), "error" (an
\* exception after the switch into the iframe, outside the checkbox block).
\* handle_captcha returns False for "absent" and "error", True otherwise.
\* Variant: login_with_credentials gives up when handle_captcha returned
\* False or the challenge stayed unsolved.
CaptchaFailureBlocksLogin(outcome) ==
    outcome \in {"absent", "error", "expired"}

\* login_with_credentials calls handle_captcha(driver) as a statement and
\* does not look at its value.
CaptchaBlocksLogin(outcome) == FALSE

\* Variant: the frame is left when the checkbox could not be clicked.
FrameKeptIfCheckboxFailed(outcome) ==
    IF outcome = "checkbox_failed" THEN "iframe" ELSE "default"

\* The frame context after handle_captcha had switched into the iframe:
\* switch_to.default_content() is called after the checkbox block and in
\* the except branch.
FrameAfterCaptcha(outcome) == "default"

\* handle_captcha returns to login_with_credentials.
CaptchaReturns(outcome) ==
    LET e == [es EXCEPT !.captcha = outcome] IN
    IF CaptchaBlocksLogin(outcome)
    THEN LoginReturnsFrom(e, FALSE, "none")
    ELSE es' = e /\ pc' = "login_submit" /\ UNCHANGED esResult

handle_captcha_detect ==
    /\ pc = "captcha"
    /\ UNCHANGED <<driver, credsSet, cookieVars, esCall, relaunch,
                   stepVars, loopVars, subVars, tempFiles, outVars, normVars, gridVars, poolVars, shutdown, dismiss>>
    /\ \/ /\ CaptchaReturns("absent")              \* no widget: returns False
          /\ UNCHANGED frame
       \/ /\ frame' = "iframe"                      \* switch_to.frame
          /\ pc' = "captcha_box"
          /\ UNCHANGED <<es, esResult>>

handle_captcha_checkbox ==
    /\ pc = "captcha_box"
    /\ UNCHANGED <<driver, credsSet, cookieVars, esCall, relaunch,
                   stepVars, loopVars, subVars, tempFiles, outVars, normVars, gridVars, poolVars, shutdown, dismiss>>
    /\ \E outcome \in {"checkbox_failed", "no_image", "resolved", "expired",
                        "error"} :
         /\ CaptchaReturns(outcome)
         /\ frame' = FrameAfterCaptcha(outcome)     \* switch_to.default_content

login_with_credentials_submit ==
    /\ pc = "login_submit"
    /\ UNCHANGED <<driver, credsSet, cookieVars, frame, esCall, relaunch,
                   stepVars, loopVars, subVars, tempFiles, outVars, normVars, gridVars, poolVars, shutdown, dismiss>>
    /\ \/ LoginReturnsFrom([es EXCEPT !.entered = "raised"], FALSE, "none")
       \/ /\ es' = [es EXCEPT !.entered = "submitted"]
          /\ pc' = "login_verify" /\ UNCHANGED esResult

\* save_cookies: the file is opened for writing (which empties it), the
\* cookies of the browser are read and pickled into it; an exception of any
\* of these is caught.
SaveOutcomes == {"saved", "open_failed", "dump_failed"}

\* Variant: the store is left as it was.
save_cookies_skipped(outcome, old) == old

save_cookies(outcome, old) ==
    CASE outcome = "saved"       -> StoredFile(LoginJar)
      [] outcome = "open_failed" -> old
      [] outcome = "dump_failed" -> TruncatedFile

\* What the verification of login_with_credentials observed: the URL after
\* the submission ("authenticated": it contains publish.buffer.com or
\* buffer.com/app) and, on such a URL, whether the wait for the New Post
\* button resolved.
LoginObserved(url, newPost) ==
    IF url # "authenticated" THEN "other_url"
    ELSE IF newPost THEN "authenticated" ELSE "no_new_post"

\* Variant: the URL alone decides.
LoginVerifiedByUrl(url, newPost) == url = "authenticated"

LoginVerified(url, newPost) == url = "authenticated" /\ newPost

\* Variant: the wait neither returns nor times out.
WaitHangs == {}

\* WebDriverWait(driver, 5).until(...): the element is returned (TRUE) or
\* TimeoutException is raised when the five seconds are over (FALSE).
WaitOutcomes == BOOLEAN

\* Variant: a save that failed makes the login fail.
LoginAfterSaveNeedsStore(outcome) == outcome = "saved"

\* The value login_with_credentials returns once save_cookies has returned:
\* `return True` follows the call whatever became of the write.
LoginAfterSave(outcome) == TRUE

login_with_credentials_verify ==
    /\ pc = "login_verify"
    /\ UNCHANGED <<driver, credsSet, loadList, loadIdx, skipped,
                   injected, frame, esCall, relaunch, stepVars, loopVars, subVars,
                   tempFiles, outVars, normVars, gridVars, poolVars, shutdown, dismiss>>
    /\ \E url \in {"authenticated", "other"}, newPost \in WaitOutcomes :
         LET e == [es EXCEPT !.seen = LoginObserved(url, newPost)] IN
         IF LoginVerified(url, newPost)
         THEN \E outcome \in SaveOutcomes :
                /\ cookieFile' = save_cookies(outcome, cookieFile)
                /\ LoginReturnsFrom(e, LoginAfterSave(outcome), outcome)
         ELSE /\ UNCHANGED cookieFile
              /\ LoginReturnsFrom(e, FALSE, "none")

(***************************************************************************)
(* process_media_file: the session result, the step sequence.              *)
(***************************************************************************)
\* What process_media_file does with the value of establish_session call
\* number `call`: go on to the steps, retry once with a fresh browser, or
\* return None.
SessionVerdictRetriesAgain(r, call) ==
    IF r = "True" THEN "steps" ELSE "retry"

SessionVerdictIgnoresRetryFailure(r, call) ==
    IF r = "True" THEN "steps" ELSE IF call = 1 THEN "retry" ELSE "steps"

SessionVerdict(r, call) ==
    IF r = "True" THEN "steps" ELSE IF call = 1 THEN "retry" ELSE "fail"

process_media_file_session ==
    /\ pc = "session_result"
    /\ UNCHANGED <<credsSet, cookieFile, frame, esResult, started, returned,
                   confirmed, loopVars, subVars, tempFiles, shots,
                   shotFailures, notice, normVars, gridVars, poolVars, shutdown, dismiss>>
    /\ es' = EsInit
    /\ loadList' = <<>> /\ loadIdx' = 0 /\ skipped' = 0 /\ injected' = <<>>
    /\ LET v == SessionVerdict(esResult, esCall) IN
         \/ /\ v = "steps"
            /\ step' = 1 /\ pc' = "step_begin"
            /\ UNCHANGED <<driver, esCall, relaunch, result>>
         \/ /\ v = "retry"             \* cleanup_driver, setup_chrome
            /\ driver' = "live"
            /\ esCall' = esCall + 1
            /\ relaunch' = <<"cleanup_driver", "setup_chrome">>
            /\ pc' = "csv_nav"
            /\ UNCHANGED <<step, result>>
         \/ /\ v = "retry"             \* cleanup_driver, setup_chrome raises
            /\ driver' = "None"
            /\ relaunch' = <<"cleanup_driver", "setup_chrome_raised">>
            /\ ProcessRaises
            /\ UNCHANGED <<esCall, step>>
         \/ /\ v = "fail"
            /\ result' = "None" /\ pc' = "done"
            /\ UNCHANGED <<driver, esCall, relaunch, step>>

\* A step function returns v ("True" or "None") to process_media_file.
StepReturns(v) ==
    /\ returned' = Append(returned, v)
    /\ pc' = "step_return"

\* Entering a candidate loop.
LoopStarts ==
    /\ cand' = 1 /\ tried' = <<>> /\ found' = 0 /\ actedOn' = 0

click_new_post_navigate ==
    /\ pc = "step_begin" /\ step = 1
    /\ started' = Append(started, step)
    /\ confirmed' = "none"
    /\ UNCHANGED <<driver, credsSet, cookieVars, frame, sessVars,
                   step, subVars, tempFiles, outVars, normVars, gridVars, poolVars, shutdown, dismiss>>
    /\ \/ StepReturns("None") /\ UNCHANGED loopVars     \* driver.get raises
       \/ LoopStarts /\ pc' = "resolve" /\ UNCHANGED returned

selector_step_begin ==
    /\ pc = "step_begin" /\ step \in 3..8
    /\ started' = Append(started, step)
    /\ confirmed' = "none"
    /\ LoopStarts /\ pc' = "resolve"
    /\ UNCHANGED <<driver, credsSet, cookieVars, frame, sessVars,
                   step, returned, subVars, tempFiles, outVars, normVars, gridVars, poolVars, shutdown, dismiss>>

\* One pass of a step function's candidate loop, and the check after it.
step_resolve ==
    /\ pc = "resolve"
    /\ UNCHANGED <<driver, credsSet, cookieVars, frame, sessVars,
                   step, started, confirmed, actedOn, subVars, tempFiles,
                   outVars, normVars, gridVars, poolVars, shutdown, dismiss>>
    /\ \E ok \in BOOLEAN :
         /\ tried' = Append(tried, [c |-> cand, ok |-> ok])
         /\ found' = IF ok THEN cand ELSE found
         /\ IF ~LoopBreaks(ok) /\ NextCandidate(cand) <= NumSelectors(step)
            THEN /\ cand' = NextCandidate(cand)
                 /\ UNCHANGED <<pc, returned>>
            ELSE /\ UNCHANGED cand
                 /\ IF found' = 0
                    THEN StepReturns("None")       \* no selector resolved
                    ELSE pc' = "act" /\ UNCHANGED returned

\* The interaction with the resolved element (click, clear, send_keys).
step_act ==
    /\ pc = "act"
    /\ actedOn' = found
    /\ UNCHANGED <<driver, credsSet, cookieVars, frame, sessVars,
                   step, started, confirmed, cand, tried, found, subVars,
                   tempFiles, outVars, normVars, gridVars, poolVars, shutdown, dismiss>>
    /\ \/ StepReturns("None")                      \* the interaction raises
       \/ IF step = 1
          THEN pc' = "confirm" /\ UNCHANGED returned
          ELSE StepReturns("True")

\* click_new_post: the wait for the New Post dialog.
\* Variant: an unconfirmed post-condition fails the step.
ConfirmResultStrict(seen) == IF seen THEN "True" ELSE "None"

\* The value a step returns after the wait for its post-condition: True
\* when the wait resolved and True when it timed out.
ConfirmResult(seen) == "True"

click_new_post_confirm ==
    /\ pc = "confirm"
    /\ \E seen \in BOOLEAN :
         /\ confirmed' = IF seen THEN "yes" ELSE "no"
         /\ StepReturns(ConfirmResult(seen))
    /\ UNCHANGED <<driver, credsSet, cookieVars, frame, sessVars,
                   step, started, loopVars, subVars, tempFiles, outVars,
                   normVars, gridVars, poolVars, shutdown, dismiss>>

upload_video_write ==
    /\ pc = "step_begin" /\ step = 2
    /\ started' = Append(started, step)
    /\ confirmed' = "none"
    /\ UNCHANGED <<driver, credsSet, cookieVars, frame, sessVars,
                   step, loopVars, subVars, outVars, normVars, gridVars, poolVars, shutdown, dismiss>>
    /\ \/ /\ tempFiles' = tempFiles + 1            \* file written and closed
          /\ pc' = "upload_send" /\ UNCHANGED returned
       \/ /\ UNCHANGED tempFiles                   \* NamedTemporaryFile raises
          /\ StepReturns("None")
       \/ /\ tempFiles < MaxTempFiles              \* write raises: the file
          /\ tempFiles' = tempFiles + 1            \* exists, no unlink is reached
          /\ StepReturns("None")

\* The finally block of upload_video: os.unlink(temp_file_path) inside
\* try/except/pass, so that a failing unlink leaves the file and is ignored.
Unlink ==
    \/ tempFiles' = tempFiles - 1
    \/ tempFiles <= MaxTempFiles /\ UNCHANGED tempFiles

upload_video_send ==
    /\ pc = "upload_send"
    /\ UNCHANGED <<driver, credsSet, cookieVars, frame, sessVars,
                   step, started, confirmed, loopVars, subVars, outVars,
                   normVars, gridVars, poolVars, shutdown, dismiss>>
    /\ \/ /\ Unlink                                \* raises; finally: unlink
          /\ StepReturns("None")
       \/ /\ pc' = "upload_confirm"
          /\ UNCHANGED <<tempFiles, returned>>

upload_video_confirm ==
    /\ pc = "upload_confirm"
    /\ \E seen \in BOOLEAN :
         /\ confirmed' = IF seen THEN "yes" ELSE "no"
         /\ StepReturns(ConfirmResult(seen))
    /\ Unlink                                      \* finally: unlink
    /\ UNCHANGED <<driver, credsSet, cookieVars, frame, sessVars,
                   step, started, loopVars, subVars, outVars, normVars, gridVars, poolVars, shutdown, dismiss>>

\* process_media_file on the value of a step function: None ends the run.
StepVerdictNeverAborts(v) == "continue"

StepVerdict(v) == IF v = "None" THEN "abort" ELSE "continue"

LastStep == 9

\* Variant: the step that returned is called again.
NextStepRepeats(s) == s

\* The step function process_media_file calls after step s returned True.
NextStep(s) == s + 1

\* The runs explored: at most MaxShotFailures captures fail, or every
\* capture of the request has failed so far.
ShotMayFail == shotFailures < MaxShotFailures \/ shots = <<>>

\* Variant: the newest snapshot is put in front of the list.
SnapshotPrepended(list, s) == <<s>> \o list

\* screenshot_bytes_list.append(screenshot_bytes): the snapshot taken after
\* step s is kept at the end of the list.
SnapshotAppended(list, s) == Append(list, s)

process_media_file_after_step ==
    /\ pc = "step_return"
    /\ UNCHANGED <<driver, credsSet, cookieVars, frame, sessVars, started,
                   returned, tempFiles, notice, normVars, gridVars, poolVars, shutdown, dismiss>>
    /\ confirmed' = "none"
    /\ cand' = 0 /\ tried' = <<>> /\ found' = 0 /\ actedOn' = 0
    /\ attempt' = 0 /\ attemptsStarted' = 0 /\ subTrace' = <<>>
    /\ clicks' = <<>> /\ dismissCount' = 0 /\ clicksOk' = 0
    /\ shareButton' = "None"
    /\ IF StepVerdict(returned[Len(returned)]) = "abort"
       THEN /\ result' = "None" /\ pc' = "done"
            /\ UNCHANGED <<step, shots, shotFailures>>
       ELSE /\ \/ /\ shots' = SnapshotAppended(shots, step)  \* take_screenshot
                  /\ UNCHANGED shotFailures
               \/ /\ ShotMayFail                   \* take_screenshot: None
                  /\ shotFailures' = shotFailures + 1
                  /\ UNCHANGED shots
            /\ IF step < LastStep
               THEN /\ step' = NextStep(step) /\ pc' = "step_begin"
                    /\ UNCHANGED result
               ELSE result' = "list" /\ pc' = "done" /\ UNCHANGED step

(***************************************************************************)
(* submit_post.                                                            *)
(***************************************************************************)
max_attempts_plus_one == 3 + 1

max_attempts == 3

\* click_methods, in list order: element.click(), the JavaScript click,
\* the ActionChains click, scrollIntoView followed by element.click().
click_methods == <<"click", "execute_script", "ActionChains", "scrollIntoView">>

NumClickMethods == Len(click_methods)

\* `if attempt > 1`: the overlay dismissal that opens a later attempt.
DismissFirstFromThird(a) == a > 2

\* Variant: overlays are dismissed before every attempt.
DismissFirstAlways(a) == a >= 1

DismissFirst(a) == a > 1

\* A click method that did not raise ends submit_post with True, whether
\* or not the post-submission signal was observed.
ClickEndsOnlyIfConfirmed(raised, seen) == ~raised /\ seen

ClickEnds(raised, seen) == ~raised

\* The click method tried after method m raised.
NextMethod(m) == m + 1

\* An event of the current attempt; repeated events are recorded once.
Event(trace, e) ==
    IF trace # <<>> /\ trace[Len(trace)] = e THEN trace ELSE Append(trace, e)

submit_post_begin ==
    /\ pc = "step_begin" /\ step = LastStep
    /\ started' = Append(started, step)
    /\ confirmed' = "none"
    /\ attempt' = 1 /\ attemptsStarted' = 0 /\ dismissCount' = 0
    /\ clicksOk' = 0
    /\ subTrace' = <<>> /\ clicks' = <<>> /\ shareButton' = "None"
    /\ cand' = 0 /\ tried' = <<>> /\ found' = 0 /\ actedOn' = 0
    /\ pc' = "sub_attempt"
    /\ UNCHANGED <<driver, credsSet, cookieVars, frame, sessVars,
                   step, returned, tempFiles, outVars, normVars, gridVars, poolVars, shutdown, dismiss>>

\* Variant: the last attempt reports success when it ends.
AttemptEndsReportsSuccess ==
    IF attempt < max_attempts
    THEN attempt' = attempt + 1 /\ pc' = "sub_attempt" /\ UNCHANGED returned
    ELSE UNCHANGED attempt /\ StepReturns("True")

\* `continue` of the attempt loop, or `return None` after the last attempt.
AttemptEnds ==
    IF attempt < max_attempts
    THEN attempt' = attempt + 1 /\ pc' = "sub_attempt" /\ UNCHANGED returned
    ELSE UNCHANGED attempt /\ StepReturns("None")

\* The head of an attempt: the overlay dismissal of a later attempt, then
\* the selector loop is entered.
submit_post_attempt ==
    /\ pc = "sub_attempt"
    /\ attempt <= max_attempts
    /\ attemptsStarted' = attemptsStarted + 1
    /\ IF DismissFirst(attempt)
       THEN /\ dismissCount' = dismissCount + 1    \* dismiss_overlays
            /\ subTrace' = <<"dismiss">>
       ELSE /\ UNCHANGED dismissCount
            /\ subTrace' = <<>>
    /\ cand' = 1 /\ tried' = <<>> /\ found' = 0 /\ actedOn' = 0
    /\ clicks' = <<>> /\ shareButton' = "None"
    /\ pc' = "sub_resolve"
    /\ UNCHANGED <<driver, credsSet, cookieVars, frame, sessVars,
                   stepVars, attempt, clicksOk, tempFiles, outVars, normVars, gridVars, poolVars, shutdown, dismiss>>

\* The except branch of the attempt: an exception outside the guarded
\* selector and click blocks.
submit_post_except ==
    /\ pc = "sub_resolve" /\ cand = 1 /\ subTrace \in {<<>>, <<"dismiss">>}
    /\ AttemptEnds
    /\ UNCHANGED <<driver, credsSet, cookieVars, frame, sessVars,
                   step, started, confirmed, loopVars, attemptsStarted,
                   subTrace, clicks, dismissCount, clicksOk, shareButton,
                   tempFiles,
                   outVars, normVars, gridVars, poolVars, shutdown, dismiss>>

\* One pass of the selector loop of submit_post, and the check after it.
\* An element that is present is assigned to share_button; the loop is
\* left only when that element is displayed and enabled, otherwise the
\* next selector is tried and share_button keeps the element.
submit_post_resolve ==
    /\ pc = "sub_resolve"
    /\ subTrace' = Event(subTrace, "resolve")
    /\ UNCHANGED <<driver, credsSet, cookieVars, frame, sessVars,
                   step, started, confirmed, tried, found, actedOn,
                   attemptsStarted, clicks, dismissCount, clicksOk, tempFiles,
                   outVars,
                   normVars, gridVars, poolVars, shutdown, dismiss>>
    /\ \E outcome \in {"timeout", "hidden", "clickable"} :
         /\ shareButton' = IF outcome = "timeout" THEN shareButton ELSE outcome
         /\ IF outcome # "clickable" /\ NextCandidate(cand) <= NumSelectors(step)
            THEN /\ cand' = NextCandidate(cand)
                 /\ UNCHANGED <<pc, returned, attempt>>
            ELSE /\ cand' = 0                      \* the loop is left
                 /\ IF shareButton' = "None"
                    THEN AttemptEnds               \* button not found
                    ELSE pc' = "sub_click" /\ UNCHANGED <<returned, attempt>>

\* One click method, and what follows it.
submit_post_click ==
    /\ pc = "sub_click"
    /\ subTrace' = Event(subTrace, "click")
    /\ UNCHANGED <<driver, credsSet, cookieVars, frame, sessVars,
                   step, started, loopVars, attemptsStarted, shareButton,
                   tempFiles, outVars, normVars, gridVars, poolVars, shutdown, dismiss>>
    /\ LET m == IF clicks = <<>> THEN 1
                ELSE NextMethod(clicks[Len(clicks)].m) IN
       \E raised \in BOOLEAN, seen \in BOOLEAN :
         /\ m <= NumClickMethods
         /\ raised => ~seen
         /\ clicks' = Append(clicks, [m |-> m, how |-> click_methods[m],
                                      raised |-> raised])
         /\ clicksOk' = IF raised THEN clicksOk ELSE clicksOk + 1
         \* the wait for a post-submission signal follows a click that
         \* did not raise
         /\ confirmed' = IF raised THEN confirmed
                         ELSE IF seen THEN "yes" ELSE "no"
         /\ IF ClickEnds(raised, seen)
            THEN /\ StepReturns("True")
                 /\ UNCHANGED <<attempt, dismissCount>>
            ELSE IF NextMethod(m) <= NumClickMethods
                 THEN UNCHANGED <<pc, returned, attempt, dismissCount>>
                 ELSE \* all click methods failed
                      /\ dismissCount' = IF attempt < max_attempts
                                         THEN dismissCount + 1
                                         ELSE dismissCount
                      /\ AttemptEnds

\* The step functions in the order process_media_file calls them.
StepNames == <<"click_new_post", "upload_video", "type_content",
               "click_customize_button", "click_second_text_area",
               "fill_reels_input", "click_section_button", "click_list_item",
               "submit_post">>

\* The phase process_media_file is in: the one its console message names
\* when the run ends here.
Phase == IF step = 0 THEN "establish_session" ELSE StepNames[step]

(***************************************************************************)
(* handle_media: the reply to the user.                                    *)
(***************************************************************************)
\* Variant: the list is not looked at.
NoticeAlwaysPosted(res, list, combineOk) == "posted"

\* The notice handle_media sends for the value of process_media_file:
\* `if screenshot_bytes_list:` is false for None and for an empty list.
Notice(res, list, combineOk) ==
    IF res = "list" /\ list # <<>>
    THEN IF combineOk THEN "posted" ELSE "combine_failed"
    ELSE "failed"

handle_media_reply ==
    /\ pc = "done"
    /\ pc' = "idle"
    /\ UNCHANGED <<driver, credsSet, cookieVars, frame, sessVars,
                   stepVars, loopVars, subVars, tempFiles, shots,
                   shotFailures, result, normVars, gridVars, poolVars, shutdown, dismiss>>
    /\ \E combineOk \in BOOLEAN :                  \* combine_screenshots
         notice' = Notice(result, shots, combineOk)

(***************************************************************************)
(* SIGINT or SIGTERM: signal_handler calls cleanup_driver and sys.exit.    *)
(* The process ends; of its state only the files on disk remain.           *)
(***************************************************************************)
\* Variant: the handle is kept when driver.quit() raises.
HandleKeptIfQuitRaises(quitRaised) == IF quitRaised THEN "live" ELSE "None"

\* cleanup_driver on a live handle: `driver = None` follows the try/except
\* around driver.quit().
HandleAfterQuit(quitRaised) == "None"

signal_handler ==
    /\ pc # "exited"
    /\ IF driver = "None"
       THEN shutdown' = "noop" /\ UNCHANGED driver  \* cleanup_driver: no-op
       ELSE \E quitRaised \in BOOLEAN :
              /\ shutdown' = IF quitRaised THEN "quit_raised" ELSE "quit"
              /\ driver' = HandleAfterQuit(quitRaised)
    /\ pc' = "exited"                               \* sys.exit(0)
    /\ shots' = <<>> /\ shotFailures' = 0 /\ notice' = "none"
    /\ result' = "none"
    /\ es' = EsInit /\ esCall' = 0 /\ esResult' = "none" /\ relaunch' = <<>>
    /\ step' = 0 /\ started' = <<>> /\ returned' = <<>> /\ confirmed' = "none"
    /\ cand' = 0 /\ tried' = <<>> /\ found' = 0 /\ actedOn' = 0
    /\ attempt' = 0 /\ attemptsStarted' = 0 /\ subTrace' = <<>>
    /\ clicks' = <<>> /\ dismissCount' = 0 /\ clicksOk' = 0
    /\ shareButton' = "None" /\ frame' = "default"
    /\ loadList' = <<>> /\ loadIdx' = 0 /\ skipped' = 0 /\ injected' = <<>>
    /\ UNCHANGED <<credsSet, cookieFile, tempFiles, normVars, gridVars,
                   poolVars, dismiss>>

Next ==
    \/ process_media_file_start
    \/ check_session_validity_navigate
    \/ check_session_validity_indicator
    \/ load_cookies_open
    \/ load_cookies_add
    \/ load_cookies_return
    \/ establish_session_credentials
    \/ login_with_credentials_open
    \/ handle_captcha_detect
    \/ handle_captcha_checkbox
    \/ login_with_credentials_submit
    \/ login_with_credentials_verify
    \/ process_media_file_session
    \/ click_new_post_navigate
    \/ selector_step_begin
    \/ step_resolve
    \/ step_act
    \/ click_new_post_confirm
    \/ upload_video_write
    \/ upload_video_send
    \/ upload_video_confirm
    \/ process_media_file_after_step
    \/ submit_post_begin
    \/ submit_post_attempt
    \/ submit_post_except
    \/ submit_post_resolve
    \/ submit_post_click
    \/ handle_media_reply
    \/ signal_handler

Spec == Init /\ [][Next]_vars

\* A step of the thread that runs handle_media and process_media_file for
\* the request in progress.  Every call it makes into the browser returns
\* or raises, so the thread is not held up for ever; when a request
\* arrives and whether a signal is delivered is left to the environment.
RequestStep == Next /\ pc # "idle" /\ pc' # "exited"

SpecFair == Spec /\ WF_vars(RequestStep)

(***************************************************************************)
(* Normalization runs: the domain rewriting of load_cookies applied to a   *)
(* cookie list, pass after pass (a list that was loaded, saved again and   *)
(* loaded again).                                                          *)
(***************************************************************************)
NormInputs ==
    {<<d>> : d \in SeqsUpTo(Tokens, MaxDomainLen)}
        \cup [1..2 -> NamedDomains]

InitNormalize ==
    /\ Quiescent
    /\ credsSet = TRUE
    /\ cookieFile = NoFile
    /\ \E l \in NormInputs : cookies = <<l>>
    /\ passes = 0
    /\ pngs = <<>> /\ combined = NotCombined

\* The rewriting part of the loop of load_cookies, over the whole list.
load_cookies_normalize ==
    /\ passes < MaxPasses
    /\ passes' = passes + 1
    /\ LET cur == cookies[Len(cookies)] IN
         cookies' = Append(cookies, [i \in 1..Len(cur) |-> normalize(cur[i])])
    /\ UNCHANGED <<pc, driver, credsSet, cookieVars, frame, sessVars, stepVars,
                   loopVars, subVars, tempFiles, outVars, gridVars,
                   poolVars, shutdown, dismiss>>

NextNormalize == load_cookies_normalize

SpecNormalize == InitNormalize /\ [][NextNormalize]_vars

(***************************************************************************)
(* combine_screenshots, applied to lists of snapshots.                     *)
(***************************************************************************)
\* cols = 2: the number of columns of the grid.
cols == 2

\* Variant: the number of rows is rounded down.
GridRowsFloor(n, c) == n \div c

\* rows = (num_images + cols - 1) // cols
GridRows(n, c) == (n + c - 1) \div c

\* Variant: the grid is filled column by column.
CellColumnMajor(i, c) == [row |-> i % c, col |-> i \div c]

\* row = i // cols, col = i % cols, for the index i of enumerate(images).
Cell(i, c) == [row |-> i \div c, col |-> i % c]

\* Variant: bytes that do not open are kept.
DecodedKeepsAll(list) == [i \in 1..Len(list) |-> i]

\* The loop over screenshot_bytes_list: the positions of the entries that
\* Image.open accepts, in list order (images holds those entries).
Decoded(list) ==
    SelectSeq([i \in 1..Len(list) |-> i], LAMBDA i : list[i].valid)

combine_screenshots(list) ==
    IF list = <<>> THEN NoImage                     \* nothing to combine
    ELSE LET images == Decoded(list) IN
      IF images = <<>> THEN NoImage                 \* no valid image
      ELSE LET num_images == Len(images)
               rows == GridRows(num_images, cols)
               img_width == list[images[1]].w
               img_height == list[images[1]].h
           IN [returned |-> TRUE, image |-> TRUE,
               width |-> cols * img_width,
               height |-> rows * img_height,
               pastes |-> [k \in 1..num_images |->
                             [snapshot |-> images[k],
                              x |-> Cell(k - 1, cols).col * img_width,
                              y |-> Cell(k - 1, cols).row * img_height]]]

InitCombine ==
    /\ Quiescent
    /\ credsSet = TRUE
    /\ cookieFile = NoFile
    /\ cookies = <<>> /\ passes = 0
    /\ pngs \in SeqsUpTo(Snapshots, MaxShots)
    /\ combined = NotCombined

\* combine_screenshots(screenshot_bytes_list) is called and returns.
combine_screenshots_call ==
    /\ ~combined.returned
    /\ combined' = combine_screenshots(pngs)
    /\ UNCHANGED <<pc, driver, credsSet, cookieVars, frame, sessVars, stepVars,
                   loopVars, subVars, tempFiles, outVars, normVars, pngs,
                   poolVars, shutdown, dismiss>>

NextCombine == combine_screenshots_call

SpecCombine == InitCombine /\ [][NextCombine]_vars

(***************************************************************************)
(* dismiss_overlays, one pass.  The page decides what each lookup and      *)
(* each click does.                                                        *)
(***************************************************************************)
NumOverlays == 5        \* entries of overlays
NumCloseButtons == 4    \* entries of close_buttons

\* Variant: a close button that was clicked does not end the pass.
ActionNeverEndsPass(ok) == FALSE

\* `return True` after an action that did not raise.
ActionEndsPass(ok) == ok

\* `continue` of the loop over overlays, or `return False` after it.
NextOverlay(d) ==
    IF d.overlay < NumOverlays
    THEN [d EXCEPT !.at = "overlay", !.overlay = @ + 1, !.button = 0]
    ELSE [d EXCEPT !.at = "returned", !.button = 0, !.result = "False"]

InitDismiss ==
    /\ Quiescent
    /\ credsSet = TRUE
    /\ cookieFile = NoFile
    /\ cookies = <<>> /\ passes = 0
    /\ pngs = <<>> /\ combined = NotCombined

dismissFrame == <<pc, driver, credsSet, cookieVars, frame, sessVars, stepVars,
                  loopVars, subVars, tempFiles, outVars, normVars, gridVars,
                  poolVars, shutdown>>

\* dismiss_overlays(driver) is called.
dismiss_overlays_begin ==
    /\ dismiss.at = "none"
    /\ dismiss' = [NoPass EXCEPT !.at = "overlay", !.overlay = 1]
    /\ UNCHANGED dismissFrame

\* find_element for the overlay pattern and is_displayed().
dismiss_overlays_find ==
    /\ dismiss.at = "overlay"
    /\ \E seen \in {"absent", "hidden", "visible"} :
         dismiss' = IF seen = "visible"
                    THEN [dismiss EXCEPT !.at = "button", !.button = 1]
                    ELSE NextOverlay(dismiss)
    /\ UNCHANGED dismissFrame

\* One close button: find_element inside the overlay and click().
dismiss_overlays_close ==
    /\ dismiss.at = "button"
    /\ \E ok \in BOOLEAN :
         LET d == [dismiss EXCEPT !.acts = Append(@,
                     [overlay |-> dismiss.overlay, button |-> dismiss.button,
                      ok |-> ok])] IN
         dismiss' = IF ActionEndsPass(ok)
                    THEN [d EXCEPT !.at = "returned", !.result = "True"]
                    ELSE IF d.button < NumCloseButtons
                    THEN [d EXCEPT !.button = @ + 1]
                    ELSE [d EXCEPT !.at = "outside", !.button = @ + 1]
    /\ UNCHANGED dismissFrame

\* The click outside the overlay; when it raises, the except branch of the
\* overlay loop continues with the next overlay.
dismiss_overlays_outside ==
    /\ dismiss.at = "outside"
    /\ \E ok \in BOOLEAN :
         LET d == [dismiss EXCEPT !.acts = Append(@,
                     [overlay |-> dismiss.overlay, button |-> dismiss.button,
                      ok |-> ok])] IN
         dismiss' = IF ok
                    THEN [d EXCEPT !.at = "returned", !.result = "True"]
                    ELSE NextOverlay(d)
    /\ UNCHANGED dismissFrame

NextDismiss ==
    \/ dismiss_overlays_begin
    \/ dismiss_overlays_find
    \/ dismiss_overlays_close
    \/ dismiss_overlays_outside

SpecDismiss == InitDismiss /\ [][NextDismiss]_vars

(***************************************************************************)
(* Requests handled by the threads of the bot.  Each thread runs           *)
(* handle_media and, inside it, process_media_file; the threads share the  *)
(* global driver.  A thread is followed from one access to the global      *)
(* driver to the next; what happens in between (the probes, the steps) is  *)
(* one action of the thread.                                               *)
(***************************************************************************)
requestVars == <<pc, credsSet, cookieVars, frame, sessVars, stepVars, loopVars,
                 subVars, tempFiles, outVars, normVars, gridVars, shutdown, dismiss>>

\* The positions of a thread that are inside process_media_file.
ProcessPhases == {"check", "launch", "establish", "cleanup", "relaunch",
                  "establish_retry", "steps"}

InitWorkers ==
    /\ Quiescent
    /\ credsSet = TRUE
    /\ cookieFile = NoFile
    /\ cookies = <<>> /\ passes = 0
    /\ pngs = <<>> /\ combined = NotCombined

\* bot.polling() receives a video or document message.
message_arrives ==
    /\ inbox < MaxInbox
    /\ inbox' = inbox + 1
    /\ UNCHANGED <<driver, wpc, browsers, requestVars>>

\* A free thread takes a message: handle_media up to the call of
\* process_media_file.
handle_media_begin(w) ==
    /\ wpc[w] = "idle" /\ inbox > 0
    /\ inbox' = inbox - 1
    /\ wpc' = [wpc EXCEPT ![w] = "check"]
    /\ UNCHANGED <<driver, browsers, requestVars>>

\* `if driver is None:` at the head of process_media_file.
process_media_file_check(w) ==
    /\ wpc[w] = "check"
    /\ wpc' = [wpc EXCEPT ![w] = IF driver = "None" THEN "launch"
                                 ELSE "establish"]
    /\ UNCHANGED <<driver, inbox, browsers, requestVars>>

\* `driver = setup_chrome()`: a browser is launched and the global handle
\* is assigned, or setup_chrome raises.
process_media_file_launch(w) ==
    /\ wpc[w] \in {"launch", "relaunch"}
    /\ \/ /\ browsers < MaxBrowsers
          /\ browsers' = browsers + 1
          /\ driver' = "live"
          /\ wpc' = [wpc EXCEPT ![w] = IF wpc[w] = "launch" THEN "establish"
                                       ELSE "establish_retry"]
       \/ /\ wpc' = [wpc EXCEPT ![w] = "reply"]
          /\ UNCHANGED <<driver, browsers>>
    /\ UNCHANGED <<inbox, requestVars>>

\* establish_session(driver), first call and retry, and what
\* process_media_file does with its value.
process_media_file_establish(w) ==
    /\ wpc[w] \in {"establish", "establish_retry"}
    /\ \E r \in {"True", "False", "raise"} :
         LET call == IF wpc[w] = "establish" THEN 1 ELSE 2 IN
         wpc' = [wpc EXCEPT ![w] =
                   IF r = "raise" THEN "reply"
                   ELSE CASE SessionVerdict(r, call) = "steps" -> "steps"
                          [] SessionVerdict(r, call) = "retry" -> "cleanup"
                          [] SessionVerdict(r, call) = "fail"  -> "reply"]
    /\ UNCHANGED <<driver, inbox, browsers, requestVars>>

\* cleanup_driver(): the browser of the global handle is quit and the
\* handle is set to None.
cleanup_driver(w) ==
    /\ wpc[w] = "cleanup"
    /\ IF driver # "None"
       THEN browsers' = browsers - 1 /\ driver' = "None"
       ELSE UNCHANGED <<driver, browsers>>
    /\ wpc' = [wpc EXCEPT ![w] = "relaunch"]
    /\ UNCHANGED <<inbox, requestVars>>

\* The nine steps, run against the global driver.
process_media_file_steps(w) ==
    /\ wpc[w] = "steps"
    /\ wpc' = [wpc EXCEPT ![w] = "reply"]
    /\ UNCHANGED <<driver, inbox, browsers, requestVars>>

\* handle_media after process_media_file returned: the notice is sent and
\* the thread is free again.
handle_media_end(w) ==
    /\ wpc[w] = "reply"
    /\ wpc' = [wpc EXCEPT ![w] = "idle"]
    /\ UNCHANGED <<driver, inbox, browsers, requestVars>>

NextWorkers ==
    \/ message_arrives
    \/ \E w \in Workers : handle_media_begin(w)
    \/ \E w \in Workers : process_media_file_check(w)
    \/ \E w \in Workers : process_media_file_launch(w)
    \/ \E w \in Workers : process_media_file_establish(w)
    \/ \E w \in Workers : cleanup_driver(w)
    \/ \E w \in Workers : process_media_file_steps(w)
    \/ \E w \in Workers : handle_media_end(w)

SpecWorkers == InitWorkers /\ [][NextWorkers]_vars

(***************************************************************************)
(* Properties.                                                             *)
(***************************************************************************)

\* C1: in every candidate loop of the step functions and of
\* check_session_validity the candidates are tried in list order, each
\* once; nothing is tried after a candidate has resolved; the element the
\* step holds and acts on is the one of the first candidate that resolved.
C1_CandidatesInOrder ==
    /\ \A i \in 1..Len(tried) : tried[i].c = i
    /\ \A i \in 1..(Len(tried) - 1) : ~tried[i].ok
    /\ found # 0 => /\ found = Len(tried)
                    /\ tried[found].ok
    /\ found = 0 => \A i \in 1..Len(tried) : ~tried[i].ok
    /\ actedOn # 0 => actedOn = found
    /\ pc \in {"act", "confirm"} => found # 0

\* A step acted on the element of its third candidate after two timeouts.
C1_Witness ==
    /\ actedOn = 3
    /\ Len(tried) = 3
    /\ step = 4

\* C2 (as claimed): a second normalization pass changes nothing.
C2_Idempotent ==
    Len(cookies) >= 3 => cookies[3] = cookies[2]

\* C3 (as claimed): '.buffer.com', 'publish.buffer.com' and
\* 'www.buffer.com' all normalize to the same domain.
C3_SameCanonical ==
    (/\ Len(cookies) >= 2
     /\ \A i \in 1..Len(cookies[1]) :
          cookies[1][i] \in {DotDomain, PublishDomain, WwwDomain})
    => \A i, j \in 1..Len(cookies[2]) : cookies[2][i] = cookies[2][j]

LoginPcs == {"login_open", "captcha", "captcha_box", "login_submit",
             "login_verify"}

\* C4: establish_session enters login_with_credentials only after the
\* first probe failed and the cookie restore failed (load_cookies returned
\* False, or the probe after it failed); after a successful probe the login
\* is never entered.
C4_LoginOnlyAfterRestoreFailed ==
    /\ pc \in LoginPcs => es.loginCalls > 0
    /\ es.loginCalls > 0 =>
          /\ es.probe1 = "False"
          /\ \/ es.load = "False" /\ es.probe2 = "none"
             \/ es.load = "True" /\ es.probe2 = "False"
    /\ (es.probe1 = "True" \/ es.probe2 = "True") =>
          /\ es.loginCalls = 0 /\ es.login = "none"
          /\ pc \notin LoginPcs

\* The login ran after the restored cookies were probed and found stale.
C4_Witness ==
    /\ es.login = "True"
    /\ es.load = "True" /\ es.probe2 = "False"

\* C5: with stale stored cookies and configured credentials,
\* establish_session calls login_with_credentials exactly once and returns
\* what the login returned.
C5_StaleCookiesFallThrough ==
    (/\ pc = "session_result"
     /\ es.load = "True" /\ es.probe2 = "False"
     /\ credsSet)
    => /\ es.loginCalls = 1
       /\ es.login \in {"True", "False"}
       /\ esResult = es.login

\* establish_session returned False from a failed login after stale cookies.
C5_Witness ==
    /\ pc = "session_result"
    /\ es.load = "True" /\ es.probe2 = "False" /\ credsSet
    /\ es.login = "False" /\ esResult = "False"

\* C6: the step functions are called in the declared order 1..9, each
\* only after all earlier ones returned True; after a step returned None
\* nothing further is called.
C6_StepsInOrder ==
    /\ Len(started) <= 9
    /\ \A i \in 1..Len(started) : started[i] = i
    /\ Len(returned) \in {Len(started) - 1, Len(started)} \cap Nat
    /\ \A i \in 1..(Len(started) - 1) : returned[i] = "True"
    /\ (\E i \in 1..Len(returned) : returned[i] = "None") =>
          pc \in {"step_return", "done", "idle"}
    /\ pc \in {"sub_attempt", "sub_resolve", "sub_click"} =>
          Len(started) = 9 /\ Len(returned) = 8

\* A run was aborted by its fourth step after three successful ones.
C6_Witness ==
    /\ pc = "done" /\ result = "None"
    /\ returned = <<"True", "True", "True", "None">>
    /\ started = <<1, 2, 3, 4>>

StepPcs == {"step_begin", "resolve", "act", "confirm", "upload_send",
            "upload_confirm", "step_return", "sub_attempt", "sub_resolve",
            "sub_click"}

\* C7: a step function runs only in a request whose establish_session
\* returned True; when it returned False twice, or raised, the request ends
\* with no step function called.
C7_NoStepWithoutSession ==
    /\ (started # <<>> \/ pc \in StepPcs) => esResult = "True"
    /\ (pc = "done" /\ esResult # "True") => started = <<>> /\ result = "None"

\* The session could not be established in two calls and the request ended.
C7_Witness ==
    /\ pc = "done" /\ esResult = "False" /\ esCall = 2
    /\ started = <<>> /\ result = "None"

\* C8: submit_post starts at most 3 attempts.
C8_AtMostThreeAttempts ==
    attemptsStarted <= 3 /\ attempt <= 3

\* The third attempt failed as well and submit_post returned None.
C8_Witness ==
    /\ pc = "step_return" /\ step = 9
    /\ attemptsStarted = 3
    /\ returned[9] = "None"

\* C9: in every attempt after the first, dismiss_overlays runs before the
\* selector loop and before any click method of that attempt.
C9_DismissBeforeLaterAttempts ==
    (pc \in {"sub_resolve", "sub_click", "step_return"} /\ attempt > 1)
    => subTrace # <<>> /\ subTrace[1] = "dismiss"

\* A second attempt that dismissed overlays, resolved the button and clicked.
C9_Witness ==
    /\ attempt = 2
    /\ subTrace = <<"dismiss", "resolve", "click">>

\* C10: within an attempt the click methods are invoked in the order
\* direct click, scripted click, ActionChains click, scroll-then-click; a
\* method is invoked only after all earlier ones raised, and after one that
\* did not raise submit_post has returned.
C10_ClickMethodsInOrder ==
    /\ Len(clicks) <= 4
    /\ \A i \in 1..Len(clicks) :
          /\ clicks[i].m = i
          /\ clicks[i].how =
               <<"click", "execute_script", "ActionChains", "scrollIntoView">>[i]
          /\ i < Len(clicks) => clicks[i].raised
    /\ (clicks # <<>> /\ ~clicks[Len(clicks)].raised) => pc = "step_return"

\* The fourth method succeeded after the first three raised.
C10_Witness ==
    /\ Len(clicks) = 4
    /\ ~clicks[4].raised

\* C11: submit_post returns None exactly when no click method completed
\* without raising in the whole call, which takes all 3 attempts; in every
\* other case it returns True.
C11_FailureIffNoClickCompleted ==
    (pc = "step_return" /\ step = LastStep)
    => /\ returned[Len(returned)] \in {"None", "True"}
       /\ returned[Len(returned)] = "None" <=> clicksOk = 0
       /\ returned[Len(returned)] = "None" => attemptsStarted = max_attempts

\* submit_post returned None after every click method of the third attempt
\* raised.
C11_Witness ==
    /\ pc = "step_return" /\ step = LastStep
    /\ returned[Len(returned)] = "None"
    /\ Len(clicks) = NumClickMethods
    /\ clicksOk = 0

\* C12: after a click method that did not raise and no post-submission
\* signal within the timeout, submit_post has returned True; no further
\* click method and no further attempt follows.
C12_UnconfirmedClickReturnsSuccess ==
    (step = LastStep /\ confirmed = "no")
    => /\ pc = "step_return"
       /\ returned[Len(returned)] = "True"
       /\ ~clicks[Len(clicks)].raised
       /\ clicksOk = 1
       /\ attemptsStarted = attempt

\* The first click method of the first attempt completed and no signal was
\* seen.
C12_Witness ==
    /\ pc = "step_return" /\ step = LastStep
    /\ confirmed = "no"
    /\ Len(clicks) = 1 /\ attempt = 1
    /\ returned[Len(returned)] = "True"

\* C13: when a click method completes in the first attempt, dismiss_overlays
\* has not run in this submit_post call.
C13_NoDismissalBeforeFirstSuccess ==
    (step = LastStep /\ clicksOk > 0 /\ attempt = 1)
    => dismissCount = 0 /\ subTrace[1] # "dismiss"

\* The second click method of the first attempt completed after the first
\* one raised.
C13_Witness ==
    /\ step = LastStep /\ attempt = 1
    /\ Len(clicks) = 2 /\ clicks[1].raised /\ ~clicks[2].raised
    /\ clicksOk = 1 /\ dismissCount = 0

\* C16 as stated: a returned evidence list holds one snapshot for each of
\* the nine completed steps, in step order.
C16_OneSnapshotPerStep ==
    result = "list" => shots = <<1, 2, 3, 4, 5, 6, 7, 8, 9>>

\* C16, amended: a returned evidence list holds, in step order and at most
\* once each, the snapshots of the completed steps whose take_screenshot
\* call returned an image; the steps whose call returned None are missing.
C16_SnapshotsOfCapturedSteps ==
    result = "list"
    => /\ \A i \in 1..Len(shots) : shots[i] \in 1..LastStep
       /\ \A i \in 1..Len(shots), j \in 1..Len(shots) :
             i < j => shots[i] < shots[j]
       /\ Len(shots) + shotFailures = LastStep
       /\ returned = [i \in 1..LastStep |-> "True"]

\* A run whose nine steps succeeded and whose list lacks one snapshot.
C16_Witness ==
    /\ result = "list"
    /\ shotFailures = 1
    /\ Len(shots) = LastStep - 1

\* C17: when click_new_post or upload_video performed its action and the
\* wait for its post-condition timed out, the step returns True, and
\* process_media_file goes on to the next step (unless a signal ends the
\* process).
C17_UnconfirmedStepContinues ==
    /\ []((pc = "step_return" /\ step \in {1, 2} /\ confirmed = "no")
           => returned[Len(returned)] = "True")
    /\ [][(pc = "step_return" /\ step \in {1, 2} /\ confirmed = "no")
           => \/ pc' = "step_begin" /\ step' = step + 1 /\ result' = "none"
              \/ pc' = "exited"]_vars

\* upload_video sent the file, did not detect the completion of the upload
\* and returned True.
C17_Witness ==
    /\ pc = "step_return" /\ step = 2
    /\ confirmed = "no"
    /\ returned = <<"True", "True">>

\* C18: check_session_validity returns True exactly when the navigation
\* returned, the URL was on publish.buffer.com and one of the indicator
\* waits resolved; it returns False when the navigation raised, the URL was
\* elsewhere or every indicator wait timed out.
C18_ValidIffUrlAndIndicator ==
    (es.probe1 # "none" /\ pc # "csv_ind")
    => LET last == IF es.probe2 # "none" THEN es.probe2 ELSE es.probe1 IN
       /\ last \in {"True", "False"}
       /\ last = "True" <=> /\ es.nav = "dashboard"
                            /\ \E i \in 1..Len(tried) : tried[i].ok

\* The probe after the cookie restore returned False on the dashboard URL
\* after all three indicator waits timed out.
C18_Witness ==
    /\ es.probe2 = "False" /\ es.nav = "dashboard"
    /\ Len(tried) = NumIndicators
    /\ \A i \in 1..Len(tried) : ~tried[i].ok

\* C19: when EMAIL or PASSWORD is not configured, login_with_credentials
\* is never entered, establish_session never returns False, and once both
\* ways to a session without credentials have failed it raises.
C19_MissingCredentialsRaise ==
    ~credsSet
    => /\ es.loginCalls = 0 /\ es.login = "none"
       /\ pc \notin LoginPcs
       /\ esResult # "False"
       /\ (/\ es.probe1 = "False"
           /\ es.load = "False" \/ es.probe2 = "False"
           /\ pc # "es_creds")
          => esResult = "raise" /\ pc \in {"done", "idle"} /\ result = "None"

\* Without credentials, the probe failed, the restored cookies did not
\* give a session, and establish_session raised.
C19_Witness ==
    /\ ~credsSet
    /\ es.probe1 = "False" /\ es.load = "True" /\ es.probe2 = "False"
    /\ esResult = "raise"
    /\ es.loginCalls = 0

\* C20 as stated: when login_with_credentials has returned True, the
\* cookie store holds the cookie set of the session.
C20_StoreRewrittenOnSuccess ==
    es.login = "True" => cookieFile = StoredFile(LoginJar)

\* C20, amended: login_with_credentials calls save_cookies exactly on the
\* path that returns True; the store holds the cookie set of the session
\* when that call wrote it, and login_with_credentials returns True as well
\* when the call failed, which can leave the store truncated.
C20_SaveAttemptedOnSuccess ==
    /\ es.login = "True" <=> es.saved # "none"
    /\ es.saved = "saved" => cookieFile = StoredFile(LoginJar)
    /\ es.saved = "dump_failed" => cookieFile = TruncatedFile

\* login_with_credentials returned True and the store is not the cookie set
\* of the session.
C20_Witness ==
    /\ es.login = "True" /\ esResult = "True"
    /\ es.saved = "open_failed"
    /\ cookieFile # StoredFile(LoginJar)

\* C14: at most one thread is inside process_media_file at any time.
C14_RequestsSerialized ==
    Cardinality({w \in Workers : wpc[w] \in ProcessPhases}) <= 1

\* C15: at most one browser is live at any time.
C15_AtMostOneBrowser ==
    browsers <= 1

\* C21: in load_cookies every stored cookie is either handed to add_cookie
\* successfully or skipped and counted; the injected cookies are the
\* rewritten stored ones in stored order; once the file was read the
\* function returns True whatever was skipped, and it returns False only
\* before its loop.
C21_SkippedCookiesAreNotFatal ==
    /\ pc = "load_loop" => skipped + Len(injected) = loadIdx - 1
    /\ es.load = "True"
       => /\ loadIdx = Len(loadList) + 1
          /\ skipped + Len(injected) = Len(loadList)
          /\ \E f \in [1..Len(injected) -> 1..Len(loadList)] :
                /\ \A j, k \in 1..Len(injected) : j < k => f[j] < f[k]
                /\ \A k \in 1..Len(injected) :
                      injected[k] = normalize(loadList[f[k]])
    /\ es.load = "False" => loadIdx = 0

\* Both stored cookies were skipped and load_cookies returned True.
C21_Witness ==
    /\ es.load = "True"
    /\ Len(loadList) = MaxCookies
    /\ skipped = MaxCookies /\ injected = <<>>

\* C22: for N >= 1 snapshots that all open as images of the same size
\* w x h, the combined image is 2*w wide and ceil(N/2)*h high.
C22_GridSize ==
    (/\ combined.returned /\ pngs # <<>>
     /\ \A i \in 1..Len(pngs) : pngs[i].valid /\ pngs[i] = pngs[1])
    => /\ combined.image
       /\ combined.width = 2 * pngs[1].w
       /\ combined.height = ((Len(pngs) \div 2) + (Len(pngs) % 2)) * pngs[1].h

\* Three snapshots of 2 x 1 pixels give an image of 4 x 2 pixels.
C22_Witness ==
    /\ pngs = <<Png(2, 1), Png(2, 1), Png(2, 1)>>
    /\ combined.image
    /\ combined.width = 4 /\ combined.height = 2

\* C23: for N >= 1 snapshots of the same size w x h, snapshot i (counted
\* from 0 in capture order) is pasted at ((i mod 2)*w, (i div 2)*h), once,
\* and no two snapshots are pasted at the same offset.
C23_GridPlacement ==
    (/\ combined.returned /\ pngs # <<>>
     /\ \A i \in 1..Len(pngs) : pngs[i].valid /\ pngs[i] = pngs[1])
    => /\ Len(combined.pastes) = Len(pngs)
       /\ \A k \in 1..Len(pngs) :
             /\ combined.pastes[k].snapshot = k
             /\ combined.pastes[k].x = ((k - 1) % 2) * pngs[1].w
             /\ combined.pastes[k].y = ((k - 1) \div 2) * pngs[1].h
       /\ \A j, k \in 1..Len(pngs) :
             j # k => \/ combined.pastes[j].x # combined.pastes[k].x
                      \/ combined.pastes[j].y # combined.pastes[k].y

\* Four snapshots: the first is at the top left, the fourth at the bottom
\* right.
C23_Witness ==
    /\ Len(pngs) = 4
    /\ \A i \in 1..4 : pngs[i] = Png(1, 2)
    /\ combined.returned
    /\ combined.pastes[1] = [snapshot |-> 1, x |-> 0, y |-> 0]
    /\ combined.pastes[4] = [snapshot |-> 4, x |-> 1, y |-> 2]

\* C24: for an empty list, and for a list none of whose entries opens as
\* an image, combine_screenshots returns None.
C24_NothingToCombine ==
    (combined.returned /\ \A i \in 1..Len(pngs) : ~pngs[i].valid)
    => combined = NoImage

\* Two entries, neither of which opens, and None was returned.
C24_Witness ==
    /\ pngs = <<BadPng, BadPng>>
    /\ combined.returned /\ ~combined.image

\* C25: the signal handler calls driver.quit() exactly when the global
\* handle is live, the handle is None afterwards whether or not quit
\* raised, and the process exits after that.
C25_SignalReleasesDriver ==
    /\ [](pc = "exited" => driver = "None" /\ shutdown # "none")
    /\ [][(pc # "exited" /\ pc' = "exited")
           => /\ driver' = "None"
              /\ driver = "None" <=> shutdown' = "noop"
              /\ driver = "live" <=> shutdown' \in {"quit", "quit_raised"}]_vars

\* A signal while the browser was live; driver.quit() raised.
C25_Witness ==
    /\ pc = "exited"
    /\ shutdown = "quit_raised"
    /\ driver = "None"

\* C26: when upload_video has returned, no temporary media file is left.
C26_NoTempFileSurvives ==
    (pc = "step_return" /\ step = 2) => tempFiles = 0

\* C27: the value process_media_file returns for a failed run, and the
\* notice handle_media sends for it, name the phase that failed.
C27_FailureNamesPhase ==
    /\ (pc = "done" /\ result # "list") => result = Phase
    /\ (pc = "idle" /\ result # "list" /\ notice # "none") => notice = Phase

\* C28: the element submit_post hands to its click methods was seen
\* displayed and enabled.
C28_ClickedButtonIsClickable ==
    (pc = "sub_click" \/ clicks # <<>>) => shareButton = "clickable"

\* C29: establish_session returns True only after its latest check saw an
\* authenticated session: without a login call, the latest probe was on
\* the dashboard URL and one indicator resolved; with a login call, the
\* login saw an authenticated URL and the New Post button.
C29_SuccessMeansAuthenticated ==
    (pc = "session_result" /\ esResult = "True")
    => IF es.loginCalls > 0
       THEN es.login = "True" /\ es.seen = "authenticated"
       ELSE /\ es.probe1 = "True" \/ es.probe2 = "True"
            /\ es.nav = "dashboard"
            /\ \E i \in 1..Len(tried) : tried[i].ok
            /\ es.seen = "none"

\* establish_session returned True from the login, after both probes
\* failed.
C29_Witness ==
    /\ pc = "session_result" /\ esResult = "True"
    /\ es.probe1 = "False" /\ es.probe2 = "False"
    /\ es.loginCalls = 1 /\ es.seen = "authenticated"

\* C30: in a pass of dismiss_overlays the dismissal actions are performed
\* in the order of the overlay patterns and, within an overlay, the close
\* buttons in order and then the click outside; only the last action can
\* have completed, and then the pass has returned True; the pass returns
\* False only after all patterns were examined and no action completed,
\* and it returns nothing but True or False.
C30_FirstDismissalEndsPass ==
    LET acts == dismiss.acts
        n == Len(acts) IN
    /\ \A i \in 1..n :
          /\ acts[i].overlay \in 1..NumOverlays
          /\ acts[i].button \in 1..(NumCloseButtons + 1)
          /\ i < n => ~acts[i].ok
          /\ i < n => \/ acts[i].overlay < acts[i + 1].overlay
                      \/ /\ acts[i].overlay = acts[i + 1].overlay
                         /\ acts[i + 1].button = acts[i].button + 1
          /\ (i = 1 \/ acts[i - 1].overlay < acts[i].overlay)
             => acts[i].button = 1
    /\ dismiss.result \in {"none", "True", "False"}
    /\ dismiss.at = "returned" <=> dismiss.result # "none"
    /\ dismiss.result = "True" <=> (n > 0 /\ acts[n].ok)
    /\ dismiss.result = "False"
       => dismiss.overlay = NumOverlays /\ \A i \in 1..n : ~acts[i].ok

\* The first overlay was not visible; on the second the four close buttons
\* failed and the click outside completed.
C30_Witness ==
    /\ dismiss.result = "True"
    /\ Len(dismiss.acts) = NumCloseButtons + 1
    /\ dismiss.acts[1].overlay = 2
    /\ dismiss.acts[NumCloseButtons + 1].ok

\* C31: the notice that the media file could not be processed is sent
\* only for a run that process_media_file aborted.
C31_FailedNoticeOnlyAfterAbort ==
    (pc = "idle" /\ notice = "failed") => result = "None"

\* C32: the notice that the media was posted is sent only for a request
\* whose session was established and whose nine steps, submit_post last,
\* returned True.
C32_PostedNoticeOnlyAfterAllSteps ==
    (pc = "idle" /\ notice = "posted")
    => /\ result = "list"
       /\ esResult = "True"
       /\ started = <<1, 2, 3, 4, 5, 6, 7, 8, 9>>
       /\ returned = [i \in 1..9 |-> "True"]

\* The posted notice was sent for a run that needed the session retry.
C32_Witness ==
    /\ pc = "idle" /\ notice = "posted"
    /\ esCall = 2
    /\ Len(returned) = LastStep

\* C33: after handle_captcha, whatever its outcome, login_with_credentials
\* goes on to enter the credentials; it does not return before that.
C33_CaptchaNeverEndsLogin ==
    es.captcha # "none"
    => /\ pc = "login_submit" \/ es.entered # "none"
       /\ es.login # "none" => es.entered # "none"

\* The image challenge was still visible when the wait for the user
\* expired, and the credentials were submitted.
C33_Witness ==
    /\ es.captcha = "expired"
    /\ es.entered = "submitted"

C35_StepsAtMostOnce ==
    /\ [](/\ \A i, j \in 1..Len(started) : i # j => started[i] # started[j]
          /\ Len(returned) <= Len(started)
          /\ attemptsStarted > 1 => step = LastStep
          /\ esCall = 2 => started = <<>> \/ esResult = "True")
    /\ [][pc = "done"
           => \/ pc' = "exited"
              \/ pc' = "idle" /\ started' = started /\ returned' = returned]_vars

\* submit_post failed after three attempts in a run that retried the
\* session: the run ended, each step function was called once.
C35_Witness ==
    /\ pc = "done" /\ result = "None"
    /\ esCall = 2
    /\ started = <<1, 2, 3, 4, 5, 6, 7, 8, 9>>
    /\ returned[LastStep] = "None"

\* C36: establish_session is called at most twice in a request; the second
\* call is made only when the first returned False, and only after
\* cleanup_driver and a setup_chrome that returned a browser; when a call
\* raises (credentials missing) process_media_file makes no further call
\* and returns None.
C36_AtMostTwoSessionCalls ==
    /\ [](/\ esCall <= 2
          /\ esCall = 2 <=> relaunch = <<"cleanup_driver", "setup_chrome">>
          /\ esResult = "raise" => /\ esCall = 1 /\ relaunch = <<>>
                                   /\ pc \in {"done", "idle"}
                                   /\ result = "None" /\ started = <<>>)
    /\ [][esCall' > esCall /\ esCall > 0
           => /\ pc = "session_result" /\ esCall = 1 /\ esResult = "False"
              /\ driver' = "live" /\ pc' = "csv_nav"]_vars

\* The second call is under way on the relaunched browser.
C36_Witness ==
    /\ esCall = 2 /\ pc = "login_verify"
    /\ relaunch = <<"cleanup_driver", "setup_chrome">>
    /\ driver = "live"

\* C37: the cookie store changes only in the step in which
\* login_with_credentials returns True; the probes, load_cookies with its
\* rewriting of the loaded domains, a login that returns False and the
\* workflow steps leave it as it was.
C37_StoreChangedOnlyByLogin ==
    [][cookieFile' # cookieFile
       => /\ pc = "login_verify"
          /\ es'.login = "True" /\ es'.saved \in {"saved", "dump_failed"}
          /\ esResult' = "True"]_vars

\* A login has replaced the store after load_cookies had read it and
\* injected cookies from it in the same establish_session call.
C37_Witness ==
    /\ es.load # "none" /\ es.saved = "saved" /\ pc = "session_result"
    /\ cookieFile = StoredFile(LoginJar)
    /\ injected # <<>>

\* C38: a run of process_media_file that has begun reaches its return to
\* handle_media unless the process is ended by a signal first; what it
\* returns is the evidence list or None, an exception raised inside it
\* having been turned into None.
C38_RunTerminates ==
    /\ [](pc = "done" => result \in {"list", "None"})
    /\ [](esResult = "raise" => result = "None")
    /\ (pc \notin {"idle", "done", "exited"}) ~> (pc \in {"done", "exited"})

\* A run that went through the session retry and all nine steps has
\* returned its evidence list.
C38_Witness ==
    /\ pc = "done" /\ esCall = 2 /\ Len(returned) = LastStep
    /\ result = "list"

\* C39: one dismiss_overlays pass runs between two consecutive attempts of
\* submit_post, so a call of submit_post has invoked dismiss_overlays at
\* most max_attempts - 1 times.
C39_OnePassBetweenAttempts ==
    dismissCount <= max_attempts - 1

====
